---------------------------- MODULE Spec2Model ----------------------------
(***************************************************************************)
(* EventBus of scripts/core/database.js: the listener registry and its    *)
(* synchronous / asynchronous dispatch, the staged module loader and the  *)
(* lifecycle wiring (initialize, world load, host sources).               *)
(* The Database class of the same file is modelled beside it: the two     *)
(* share no state.                                                         *)
(*                                                                         *)
(* JavaScript runs one call stack.  Application code (a listener body, a  *)
(* module being evaluated, any other script) is the environment: it may   *)
(* call every public operation whenever it is executing, that is at top   *)
(* level or inside a listener the bus has invoked.  `stack` holds one     *)
(* frame per emit / emitAsync call in progress.                           *)
(***************************************************************************)
EXTENDS Integers, Sequences, FiniteSets, TLC

VARIABLES
  listenersMap,      \* EventBus.listenersMap: event name -> ordered Set of listeners
  wrappers,          \* the closures created by once(): eventName, handler, completed, with
                     \* history: calls of the handler, the payload handed to it, and the
                     \* payload of the first emit that invoked the wrapper
  stack,             \* emit / emitAsync calls in progress, innermost last; a frame also
                     \* keeps history: the listeners registered when the call started
                     \* (start, both, and regs: when each was registered), the calls made
                     \* (called: the listener, whether it got the event name, whether it
                     \* was still registered) and how they ended (results)
  jobs,              \* promises returned by listener bodies: pending / fulfilled / rejected
  asyncCalls,        \* one record per emitAsync call: its tasks and whether it resolved
  registered,        \* history: per pair <<event, listener>>, the on() calls since it was
                     \* last removed (n, counted up to 2) and when the first of them was
                     \* made (at, a logical clock); absent when not registered
  lastError,         \* what the most recent public call threw at its call site
  initialized,       \* EventBus.initialized
  worldReady,        \* EventBus.worldReady
  bootstrapCompleted,\* EventBus.bootstrapCompleted
  runtimeCompleted,  \* EventBus.runtimeCompleted
  moduleQueue,       \* EventBus.moduleQueue: entries in registration order
  importedModules,   \* EventBus.importedModules
  entries,           \* every entry object registerModule created (its cancel closure exists),
                     \* with history: whether its phase's gate was true when it was
                     \* registered, and whether its specifier was loaded and whether
                     \* its phase's gate was true when its cancel closure was first
                     \* invoked
  loads,             \* per resolved specifier: calls of import() and the promise's state
  batches,           \* one record per importPhase call: the importModule promises it
                     \* awaits, whether it has settled, and what it then counted and logged
  host,              \* the subscriptions the host holds: watchdog, world load, sources
  hostQueue,         \* callbacks the host is delivering for the event it is raising
  hist,              \* history: counts of calls, deliveries and controller steps, the
                     \* listeners registered for the readiness event when it was emitted
                     \* and those it had been delivered to when the Runtime batch began
  calls,             \* history: dispatcher calls made by application code
  properties,        \* the world's dynamic properties: id -> value
  db,                \* the Database instance: whether constructed, useCache, cachePrimed
                     \* and cache (id -> value, a value may be undefined)
  returned           \* history: the last Database call, its id and what it returned

busVars == <<listenersMap, wrappers, stack, jobs, asyncCalls, registered, lastError>>
busVars_noError == <<listenersMap, wrappers, stack, jobs, asyncCalls, registered>>
loaderVars == <<initialized, worldReady, bootstrapCompleted, runtimeCompleted,
                moduleQueue, importedModules, entries, loads, batches, host, hostQueue,
                hist>>
vars == <<listenersMap, wrappers, stack, jobs, asyncCalls, registered, lastError,
          initialized, worldReady, bootstrapCompleted, runtimeCompleted,
          moduleQueue, importedModules, entries, loads, batches, host, hostQueue, hist,
          calls, properties, db, returned>>
dbVars == <<properties, db, returned>>
appVars == <<busVars, loaderVars, calls>>

---------------------------------------------------------------------------
(* Bounds of the model. *)

NumHandlers == 2      \* distinct application callables
NumPayloads == 2      \* distinct payload values
MaxOnce == 1          \* once() registrations over a run
MaxDepth == 2         \* nested emit calls
MaxCalls == 4         \* dispatcher calls made by application code over a run
MaxAsync == 1         \* emitAsync calls over a run
MaxJobs == 1          \* promises returned by listener bodies over a run
MaxEntries == 2       \* registerModule calls that create an entry over a run
MaxInitCalls == 2     \* initialize() calls over a run
MaxReady == 2         \* deliveries of the host's world load event over a run
MaxSignals == 2       \* deliveries of the host's watchdog signal over a run
NumDbKeys == 2        \* distinct valid keys of Database calls
NumDbValues == 2      \* distinct defined values stored

---------------------------------------------------------------------------
(* Values. *)

\* BUS_EVENTS
WORLD_LOAD == "worldLoad"
ITEM_USE == "itemUse"
INVENTORY_SLOT_CHANGE == "playerInventoryItemChange"
INTERACT_BLOCK == "playerInteractWithBlock"
BREAK_BLOCK == "playerBreakBlock"
PLAYER_JOIN == "playerJoin"
PLAYER_LEAVE == "playerLeave"
ENTITY_SPAWN == "entitySpawn"
PLAYER_SPAWN == "playerSpawn"
SHUTDOWN == "shutdown"
ANY == "*"

\* MODULE_PHASE
BOOTSTRAP == "bootstrap"
RUNTIME == "runtime"

\* A value whose typeof is not "string" (a number, null, an object).
NonString == "<non-string>"
TypeOfIsString(v) == v # NonString

\* Listener identities: application functions and once() wrappers.
Fn(i) == [kind |-> "fn", id |-> i]
Wr(i) == [kind |-> "once", id |-> i]
\* A value whose typeof is not "function".
NotCallable == [kind |-> "value", id |-> 0]
TypeOfIsFunction(l) == l.kind \in {"fn", "once"}

Handlers == {Fn(i) : i \in 1..NumHandlers}
Payloads == 1..NumPayloads

---------------------------------------------------------------------------
(* Ordered sets (JavaScript Set: insertion order, no duplicates) and Map. *)

Range(s) == {s[i] : i \in 1..Len(s)}
Contains(s, x) == \E i \in 1..Len(s) : s[i] = x

\* A Set.add without the membership test, as an array push would behave.
SetAddPush(s, x) == Append(s, x)

\* Set.prototype.add
SetAdd(s, x) == IF Contains(s, x) THEN s ELSE Append(s, x)

\* Set.prototype.delete
SetDelete(s, x) == SelectSeq(s, LAMBDA y : y # x)

RECURSIVE AddAll(_, _)
\* source.forEach((fn) => target.add(fn))
AddAll(target, source) ==
  IF source = <<>> THEN target
  ELSE AddAll(SetAdd(target, Head(source)), Tail(source))

MapHas(m, k) == k \in DOMAIN m
MapSet(m, k, v) == [x \in (DOMAIN m) \cup {k} |-> IF x = k THEN v ELSE m[x]]
MapDelete(m, k) == [x \in (DOMAIN m) \ {k} |-> m[x]]
EmptyMap == [x \in {} |-> <<>>]

---------------------------------------------------------------------------
(* Argument validation. *)

validateEventName(eventName) == TypeOfIsString(eventName)
validateHandler(handler) == TypeOfIsFunction(handler)

---------------------------------------------------------------------------
(* References to Set objects held by an emit call in progress.  emit reads *)
(* listenersMap.get(eventName) and listenersMap.get("*") once and keeps    *)
(* the two references; on() and off() mutate those same objects until the *)
(* map entry is deleted, after which on() creates a fresh Set.            *)

NoRef == [def |-> FALSE, live |-> FALSE, items |-> <<>>]
GetRef(m, k) == IF MapHas(m, k) THEN [def |-> TRUE, live |-> TRUE, items |-> m[k]] ELSE NoRef

RefAdd(r, h) == IF r.def /\ r.live THEN [r EXCEPT !.items = SetAdd(@, h)] ELSE r
RefDelete(r, h) ==
  IF r.def /\ r.live
  THEN [r EXCEPT !.items = SetDelete(@, h), !.live = (SetDelete(r.items, h) # <<>>)]
  ELSE r
RefDetach(r) == [r EXCEPT !.live = FALSE]

\* f.specific aliases the Set of f.eventName, f.wildcard the Set of "*".
FrameAdd(f, e, h) ==
  [f EXCEPT !.specific = IF f.eventName = e THEN RefAdd(@, h) ELSE @,
            !.wildcard = IF e = ANY THEN RefAdd(@, h) ELSE @]
FrameDelete(f, e, h) ==
  [f EXCEPT !.specific = IF f.eventName = e THEN RefDelete(@, h) ELSE @,
            !.wildcard = IF e = ANY THEN RefDelete(@, h) ELSE @]
FrameDetach(f, e) ==
  [f EXCEPT !.specific = IF f.eventName = e THEN RefDetach(@) ELSE @,
            !.wildcard = IF e = ANY THEN RefDetach(@) ELSE @]
FrameDetachAll(f) ==
  [f EXCEPT !.specific = RefDetach(@), !.wildcard = RefDetach(@)]

---------------------------------------------------------------------------
(* on / off as functions of the registry. *)

\* An on that also puts the handler into the delivery sets in progress, as a loop
\* over the registry's own Set would see it.
onStackLive(stk, m, eventName, handler) ==
  [i \in 1..Len(stk) |->
     IF eventName \in {stk[i].eventName, ANY}
     THEN [FrameAdd(stk[i], eventName, handler) EXCEPT !.handlers = SetAdd(@, handler)]
     ELSE FrameAdd(stk[i], eventName, handler)]

\* handlers = listenersMap.get(eventName) ?? new Set(); handlers.add(handler); set
onMap(m, eventName, handler) ==
  MapSet(m, eventName, SetAdd(IF MapHas(m, eventName) THEN m[eventName] ELSE <<>>, handler))
onStack(stk, m, eventName, handler) ==
  IF MapHas(m, eventName)
  THEN [i \in 1..Len(stk) |-> FrameAdd(stk[i], eventName, handler)]
  ELSE stk

\* An off that also takes the handler out of the part of a delivery set in progress
\* that has not been visited yet, as a loop over the registry's own Set would see it.
offStackLive(stk, m, eventName, handler) ==
  IF MapHas(m, eventName)
  THEN [i \in 1..Len(stk) |->
          IF eventName \in {stk[i].eventName, ANY}
          THEN [FrameDelete(stk[i], eventName, handler) EXCEPT
                  !.handlers = SubSeq(@, 1, stk[i].idx)
                                 \o SelectSeq(SubSeq(@, stk[i].idx + 1, Len(@)),
                                              LAMBDA h : h # handler)]
          ELSE FrameDelete(stk[i], eventName, handler)]
  ELSE stk

\* An off that leaves the emptied Set in the map.
offMapKeepEmpty(m, eventName, handler) ==
  IF ~MapHas(m, eventName) THEN m
  ELSE MapSet(m, eventName, SetDelete(m[eventName], handler))

\* An off that deletes the event's entry whatever the handler.
offMapWholeEvent(m, eventName, handler) == MapDelete(m, eventName)

\* off(eventName, handler): delete the handler, and the entry once it is empty
offMap(m, eventName, handler) ==
  IF ~MapHas(m, eventName) THEN m
  ELSE IF SetDelete(m[eventName], handler) = <<>> THEN MapDelete(m, eventName)
  ELSE MapSet(m, eventName, SetDelete(m[eventName], handler))
offStack(stk, m, eventName, handler) ==
  IF MapHas(m, eventName)
  THEN [i \in 1..Len(stk) |-> FrameDelete(stk[i], eventName, handler)]
  ELSE stk

\* off(eventName): delete the entry
offEventMap(m, eventName) == MapDelete(m, eventName)
offEventStack(stk, m, eventName) ==
  IF MapHas(m, eventName)
  THEN [i \in 1..Len(stk) |-> FrameDetach(stk[i], eventName)]
  ELSE stk

\* off() / off(null): listenersMap.clear()
offAllStack(stk) == [i \in 1..Len(stk) |-> FrameDetachAll(stk[i])]

listenerCount(eventName) ==
  IF MapHas(listenersMap, eventName) THEN Len(listenersMap[eventName]) ELSE 0
eventNames == DOMAIN listenersMap

---------------------------------------------------------------------------
(* Module specifiers: strings as sequences of characters. *)

Letters == {"a", "b", "d", "i", "m"}
NonStringSpecifier == <<"<non-string>">>
NoAnchor == <<>>

RECURSIVE TrimStart(_)
TrimStart(s) == IF s # <<>> /\ Head(s) = " " THEN TrimStart(Tail(s)) ELSE s
RECURSIVE TrimEnd(_)
TrimEnd(s) == IF s # <<>> /\ s[Len(s)] = " " THEN TrimEnd(SubSeq(s, 1, Len(s) - 1)) ELSE s
\* String.prototype.trim
Trim(s) == TrimEnd(TrimStart(s))

StartsWith(s, p) == Len(s) >= Len(p) /\ SubSeq(s, 1, Len(p)) = p
Drop(s, n) == SubSeq(s, n + 1, Len(s))

validateModuleSpecifier(specifier) ==
  specifier # NonStringSpecifier /\ Trim(specifier) # <<>>

\* /^([a-zA-Z]+:|\/\/|\/)/
isAbsolute(trimmed) ==
  \/ \E k \in 1..(Len(trimmed) - 1) :
       /\ \A j \in 1..k : trimmed[j] \in Letters
       /\ trimmed[k + 1] = ":"
  \/ StartsWith(trimmed, <<"/", "/">>)
  \/ StartsWith(trimmed, <<"/">>)
isRelative(trimmed) ==
  StartsWith(trimmed, <<".", "/">>) \/ StartsWith(trimmed, <<".", ".", "/">>)

RECURSIVE UpToLastSlash(_)
UpToLastSlash(s) ==
  IF s = <<>> \/ s[Len(s)] = "/" THEN s ELSE UpToLastSlash(SubSeq(s, 1, Len(s) - 1))
\* The directory above d (d ends with "/"); the root "scheme:/" is its own parent.
ParentDir(d) ==
  IF Len(d) >= 2 /\ d[Len(d) - 1] # ":" THEN UpToLastSlash(SubSeq(d, 1, Len(d) - 1)) ELSE d
\* new URL(trimmed, anchor).toString(), for an anchor "scheme:/path" and a trimmed
\* specifier that is "./" or "../" followed by a name without further dot segments.
UrlResolve(trimmed, anchor) ==
  IF StartsWith(trimmed, <<".", "/">>)
  THEN UpToLastSlash(anchor) \o Drop(trimmed, 2)
  ELSE ParentDir(UpToLastSlash(anchor)) \o Drop(trimmed, 3)

\* A resolution that never asks for an anchor.
resolveThrowsNever(specifier, anchor) == FALSE

\* Whether resolveModuleSpecifier throws.
resolveThrows(specifier, anchor) ==
  LET trimmed == Trim(specifier)
  IN  ~isAbsolute(trimmed) /\ isRelative(trimmed) /\ anchor = NoAnchor
resolveModuleSpecifier(specifier, anchor) ==
  LET trimmed == Trim(specifier)
  IN  IF isAbsolute(trimmed) THEN trimmed
      ELSE IF isRelative(trimmed) THEN UrlResolve(trimmed, anchor)
      ELSE trimmed

normalizePhase(phase, legacyBeforeLoad) ==
  IF phase = BOOTSTRAP \/ phase = "before" THEN BOOTSTRAP
  ELSE IF phase = RUNTIME \/ phase = "after" THEN RUNTIME
  ELSE IF legacyBeforeLoad THEN BOOTSTRAP ELSE RUNTIME

---------------------------------------------------------------------------
(* The loader as functions of its state. *)

LoadOf(lds, s) == IF s \in DOMAIN lds THEN lds[s] ELSE [count |-> 0, state |-> "none"]

\* importModule without the importedModules guard.
importModuleUnguarded(st, specifier) ==
  [st EXCEPT !.imported = @ \cup {specifier},
             !.loads = MapSet(@, specifier,
                          [count |-> LoadOf(st.loads, specifier).count + 1, state |-> "pending"])]

\* importModule up to its await: st is [imported, loads]
importModule(st, specifier) ==
  IF specifier \in st.imported THEN st
  ELSE [st EXCEPT !.imported = @ \cup {specifier},
                  !.loads = MapSet(@, specifier,
                               [count |-> LoadOf(st.loads, specifier).count + 1, state |-> "pending"])]

\* A batch that starts the load of its first entry only.
importAllFirstOnly(st, pending) ==
  IF pending = <<>> THEN st ELSE importModule(st, Head(pending).specifier)

RECURSIVE importAll(_, _)
\* pending.map((entry) => this.importModule(entry.specifier))
importAll(st, pending) ==
  IF pending = <<>> THEN st
  ELSE importAll(importModule(st, Head(pending).specifier), Tail(pending))

\* this.moduleQueue.filter((entry) => entry.phase === phase)
pendingOf(queue, phase) == SelectSeq(queue, LAMBDA entry : entry.phase = phase)

\* moduleQueue.indexOf(entry), 0 when absent
indexOf(queue, entry) ==
  IF \E i \in 1..Len(queue) : queue[i] = entry
  THEN CHOOSE i \in 1..Len(queue) : queue[i] = entry /\ \A j \in 1..(i - 1) : queue[j] # entry
  ELSE 0
\* A splice that removes nothing.
spliceNothing(queue, idx) == queue
\* moduleQueue.splice(idx, 1)
splice(queue, idx) == SubSeq(queue, 1, idx - 1) \o SubSeq(queue, idx + 1, Len(queue))

---------------------------------------------------------------------------
(* Host event sources. *)

NumBindings == 8
bindings ==
  << ITEM_USE, INVENTORY_SLOT_CHANGE, INTERACT_BLOCK, BREAK_BLOCK,
     PLAYER_JOIN, PLAYER_LEAVE, ENTITY_SPAWN, PLAYER_SPAWN >>
HostEvents == Range(bindings)

\* What the host offers for each binding when the world loads: a source with a
\* working subscribe, no source (or no subscribe method), or a subscribe that throws.
HostProfiles ==
  { [i \in 1..NumBindings |-> IF i = 2 THEN "absent" ELSE "ok"],
    [i \in 1..NumBindings |-> IF i = 3 THEN "throws" ELSE "ok"] }

RECURSIVE attachFrom(_, _, _)
\* bindings.forEach(...) from binding i on: [attached, threw]
attachFrom(att, profile, i) ==
  IF i > NumBindings THEN [attached |-> att, threw |-> FALSE]
  ELSE IF profile[i] = "absent" THEN attachFrom(att, profile, i + 1)
  ELSE IF profile[i] = "throws" THEN [attached |-> att, threw |-> TRUE]
  ELSE attachFrom([att EXCEPT ![bindings[i]] = @ + 1], profile, i + 1)
attachMinecraftEvents(att, profile) == attachFrom(att, profile, 1)

---------------------------------------------------------------------------
(* The call stack. *)

Top == stack[Len(stack)]
SetTop(stk, f) == [stk EXCEPT ![Len(stk)] = f]
Pop(stk) == SubSeq(stk, 1, Len(stk) - 1)

\* Application code is executing: at top level while the host is not in the
\* middle of delivering an event, or inside a listener body.
AppRuns == IF stack = <<>> THEN hostQueue = <<>> ELSE Top.running
\* Promise reactions and host callbacks run on an empty call stack.
StackEmpty == stack = <<>>

RegisteredFor(reg, eventName) == {p[2] : p \in {q \in DOMAIN reg : q[1] = eventName}}
\* The history after on(eventName, handler), off(eventName, handler), off(eventName).
Clock(reg) ==
  IF DOMAIN reg = {} THEN 0
  ELSE CHOOSE t \in {reg[p].at : p \in DOMAIN reg} : \A q \in DOMAIN reg : reg[q].at <= t
RegAdd(reg, eventName, handler) ==
  MapSet(reg, <<eventName, handler>>,
         IF MapHas(reg, <<eventName, handler>>)
         THEN [n |-> 2, at |-> reg[<<eventName, handler>>].at]
         ELSE [n |-> 1, at |-> Clock(reg) + 1])
RegRemove(reg, eventName, handler) == MapDelete(reg, <<eventName, handler>>)
RegRemoveEvent(reg, eventName) ==
  [p \in {q \in DOMAIN reg : q[1] # eventName} |-> reg[p]]

SetOrEmpty(m, k) == IF MapHas(m, k) THEN m[k] ELSE <<>>

\* The delivery set built by appending both sets to an array.
DeliverySetConcat(m, eventName) == SetOrEmpty(m, eventName) \o SetOrEmpty(m, ANY)

\* The delivery set filled from the wildcard set first.
DeliverySetWildcardFirst(m, eventName) ==
  AddAll(AddAll(<<>>, SetOrEmpty(m, ANY)), SetOrEmpty(m, eventName))

\* handlers = new Set(); specificHandlers.forEach(add); wildcardHandlers.forEach(add)
DeliverySet(m, eventName) ==
  AddAll(AddAll(<<>>, SetOrEmpty(m, eventName)), SetOrEmpty(m, ANY))

\* An emit that finds no listener.
hasHandlersNever(m, eventName) == FALSE

\* if (!specificHandlers && !wildcardHandlers) return;
hasHandlers(m, eventName) == MapHas(m, eventName) \/ MapHas(m, ANY)

\* wildcardHandlers?.has(fn) && (!specificHandlers || !specificHandlers.has(fn))
shouldSendEventName(f, fn) ==
  /\ f.wildcard.def /\ Contains(f.wildcard.items, fn)
  /\ (~f.specific.def \/ ~Contains(f.specific.items, fn))

NewFrame(kind, eventName, payload, call, cont) ==
  [ kind |-> kind, eventName |-> eventName, payload |-> payload,
    specific |-> GetRef(listenersMap, eventName),
    wildcard |-> GetRef(listenersMap, ANY),
    handlers |-> DeliverySet(listenersMap, eventName),
    idx |-> 1, running |-> FALSE, threw |-> FALSE,
    called |-> <<>>, results |-> <<>>,
    start |-> RegisteredFor(registered, eventName) \cup RegisteredFor(registered, ANY),
    both |-> IF eventName = ANY THEN {}
             ELSE RegisteredFor(registered, eventName) \cap RegisteredFor(registered, ANY),
    regs |-> [p \in {q \in DOMAIN registered : q[1] \in {eventName, ANY}} |-> registered[p].at],
    call |-> call, cont |-> cont ]

\* A listener error that would escape emit's loop (no try / catch around the call).
propagatesUncaught(kind, result, logFails) == result = "throw"

\* try { fn(...) } catch (error) { try { console.error(...) } catch { } }
\* and, in emitAsync, catch (error) { return Promise.reject(error) }
propagates(kind, result, logFails) == FALSE

\* What the call fn(payload) gives emit, for a body that ended with `outcome`:
\* the once() wrapper returns undefined unless its handler threw.
wrapperResult(fn, outcome) ==
  IF fn.kind = "once" THEN (IF outcome = "throw" THEN "throw" ELSE "value") ELSE outcome

TaskOf(fn, result, job) ==
  [ l |-> fn,
    state |-> IF result = "throw" THEN "rejected"
              ELSE IF result = "promise" THEN "job" ELSE "fulfilled",
    job |-> IF result = "promise" THEN job ELSE 0 ]
TaskState(t) == IF t.state = "job" THEN jobs[t.job] ELSE t.state

\* The listeners the call has invoked so far.
CalledListeners(f) == {f.called[i].l : i \in 1..Len(f.called)}

\* The frame once the call of its current listener is over.
FrameAfterCall(f, result, logFails) ==
  IF propagates(f.kind, result, logFails)
  THEN [f EXCEPT !.running = FALSE, !.threw = TRUE, !.idx = Len(f.handlers) + 1,
                 !.results = Append(@, result)]
  ELSE [f EXCEPT !.running = FALSE, !.idx = @ + 1, !.results = Append(@, result)]

\* A wrapper that sets its latch only after its handler has run.
latchOnEntryLate(w) == w
\* completed = true, before handler(payload, invokedEvent)
latchOnEntry(w) == [w EXCEPT !.completed = TRUE]

---------------------------------------------------------------------------
(* The loader's steps as functions of the state. *)

\* A late-registration test that never fires.
phaseReadyNever(phase, bc, rc) == FALSE
\* A late-registration test that always fires.
phaseReadyAlways(phase, bc, rc) == TRUE

\* bootstrapReady || runtimeReady
phaseReady(phase, bc, rc) ==
  (phase = BOOTSTRAP /\ bc) \/ (phase = RUNTIME /\ rc)

\* The promises importPhase awaits, one per pending entry: importModule awaits
\* import() only where it found the specifier not yet in importedModules.
tasksOf(pending, imported) ==
  [i \in 1..Len(pending) |->
     [specifier |-> pending[i].specifier,
      fresh |-> /\ pending[i].specifier \notin imported
                /\ \A j \in 1..(i - 1) : pending[j].specifier # pending[i].specifier]]

\* The call's record: settled at once when nothing is pending (the early return).
batchOf(phase, pending, imported) ==
  [phase |-> phase, tasks |-> tasksOf(pending, imported),
   state |-> IF pending = <<>> THEN "settled" ELSE "pending",
   failures |-> 0, summary |-> <<>>]

\* An importPhase that sets its gate only when it finds an entry to load.
importPhaseGateIfPending(phase) ==
  LET pending == pendingOf(moduleQueue, phase)
      st == importAll([imported |-> importedModules, loads |-> loads], pending)
  IN  [ bc |-> (bootstrapCompleted \/ (phase = BOOTSTRAP /\ pending # <<>>)),
        rc |-> (runtimeCompleted \/ (phase = RUNTIME /\ pending # <<>>)),
        imported |-> st.imported,
        loads |-> st.loads,
        batch |-> batchOf(phase, pending, importedModules) ]

\* importPhase up to its await: the gates, importedModules and loads afterwards,
\* and the record of the call
importPhase(phase) ==
  LET pending == pendingOf(moduleQueue, phase)
      st == importAll([imported |-> importedModules, loads |-> loads], pending)
  IN  [ bc |-> (bootstrapCompleted \/ phase = BOOTSTRAP),
        rc |-> (runtimeCompleted \/ phase = RUNTIME),
        imported |-> st.imported,
        loads |-> st.loads,
        batch |-> batchOf(phase, pending, importedModules) ]

\* What the promise of importModule settles to once import() has settled:
\* try { await import(specifier) } catch (error) { console.error(...) }
\* (console.error is taken to return normally)
importModuleSettles(loadState) == "fulfilled"

\* results.filter((result) => result.status === "rejected").length
failuresOf(tasks, lds) ==
  Cardinality({i \in 1..Len(tasks) :
                 /\ tasks[i].fresh
                 /\ importModuleSettles(lds[tasks[i].specifier].state) = "rejected"})

\* An initialize without its latch.
initializeReturnsNever(init) == FALSE
\* if (this.initialized) return;
initializeReturns(init) == init

\* A world load handler without its latch.
worldLoadReturnsNever(ready) == FALSE
\* if (this.worldReady) return;
worldLoadReturns(ready) == ready

Repeat(x, n) == [i \in 1..n |-> x]

\* A watchdog callback whose three steps share one try block.
watchdogEmitsOneTry(cancelFails, warnFails) == ~cancelFails /\ ~warnFails
\* Whether the watchdog callback reaches its emit: event.cancel = true and
\* console.warn each sit in a try / catch of their own.
watchdogEmits(cancelFails, warnFails) == TRUE

\* { data: event, timestamp: Date.now(), isWatchdog: true }
shutdownPayload(event) == [data |-> event, isWatchdog |-> TRUE]

---------------------------------------------------------------------------
(* The Database class: a namespaced mirror of the world's dynamic         *)
(* properties with an in-memory cache.  Ids are strings, as sequences of  *)
(* characters.                                                             *)

\* options.separator ?? ":"
separator == ":"
\* this.name of the instance
DbName == <<"d">>
\* An argument left out (undefined): no string holds a character of this name.
NoSegment == <<"<undefined>">>
\* The value undefined
Undefined == 0
DbValues == 1..NumDbValues
KeyLetters == <<"a", "b", "c">>
DbKeys == {<<KeyLetters[i]>> : i \in 1..NumDbKeys}
Segments == {NoSegment, <<"s">>}
\* Arguments (key, segment) ensureValidKey rejects: a blank key, a key holding the
\* separator, an empty segment.
BadDbInputs ==
  { << <<" ">>, NoSegment >>, << <<"a", separator, "b">>, NoSegment >>, << <<"a">>, <<>> >> }
DbInputs == (DbKeys \X Segments) \cup BadDbInputs

\* (value) => value and (raw) => raw, the defaults of the two options
serialize(value) == value
deserialize(raw) == raw

\* The error ensureValidKey throws for `key`, or "none"
ensureValidKey(key) ==
  IF Trim(key) = <<>> THEN "TypeError"
  ELSE IF \E i \in 1..Len(key) : key[i] = separator THEN "Error"
  ELSE "none"

\* pieces.join(this.separator)
RECURSIVE join(_)
join(pieces) ==
  IF Len(pieces) = 1 THEN pieces[1]
  ELSE pieces[1] \o <<separator>> \o join(Tail(pieces))

\* id.split(this.separator)
RECURSIVE split(_)
split(id) ==
  IF \A i \in 1..Len(id) : id[i] # separator THEN <<id>>
  ELSE LET k == CHOOSE i \in 1..Len(id) :
                  id[i] = separator /\ \A j \in 1..(i - 1) : id[j] # separator
       IN  <<SubSeq(id, 1, k - 1)>> \o split(SubSeq(id, k + 1, Len(id)))

\* Whether buildId(key, segment) throws
buildIdThrows(key, segment) ==
  \/ ensureValidKey(key) # "none"
  \/ segment # NoSegment /\ ensureValidKey(segment) # "none"

buildId(key, segment) ==
  join(IF segment # NoSegment THEN <<DbName, segment, key>> ELSE <<DbName, key>>)

NullParse == [null |-> TRUE]
parseId(id) ==
  LET pieces == split(id)
  IN  IF pieces[1] # DbName \/ Len(pieces) < 2 THEN NullParse
      ELSE IF Len(pieces) = 2 THEN [segment |-> NoSegment, key |-> pieces[2]]
      ELSE [segment |-> pieces[2], key |-> join(SubSeq(pieces, 3, Len(pieces)))]

\* prefixPieces.join(this.separator) + this.separator
prefixOf(segment) ==
  join(IF segment # NoSegment THEN <<DbName, segment>> ELSE <<DbName>>) \o <<separator>>

\* world.getDynamicPropertyIds().filter((id) => id.startsWith(prefix))
listIds(props, segment) == {id \in DOMAIN props : StartsWith(id, prefixOf(segment))}

\* world.getDynamicProperty(id): undefined for a property that is not set
getDynamicProperty(props, id) == IF id \in DOMAIN props THEN props[id] ELSE Undefined
\* world.setDynamicProperty(id, payload): the value undefined removes the property
setDynamicProperty(props, id, payload) ==
  IF payload = Undefined
  THEN [i \in DOMAIN props \ {id} |-> props[i]]
  ELSE [i \in DOMAIN props \cup {id} |-> IF i = id THEN payload ELSE props[i]]

\* this.cache.set(id, value) and this.cache.delete(id)
cacheSet(cache, id, value) ==
  [i \in DOMAIN cache \cup {id} |-> IF i = id THEN value ELSE cache[i]]
cacheDelete(cache, id) == [i \in DOMAIN cache \ {id} |-> cache[i]]

\* The cache after refreshCache(segment)
refreshCache(cache, props, segment) ==
  LET loaded == {id \in listIds(props, segment) : parseId(id) # NullParse}
  IN  [i \in DOMAIN cache \cup loaded |->
         IF i \in loaded THEN deserialize(getDynamicProperty(props, i)) ELSE cache[i]]

\* The value get returns for `id`, and the cache it leaves
getValue(d, props, id) ==
  IF d.useCache /\ id \in DOMAIN d.cache THEN d.cache[id]
  ELSE IF getDynamicProperty(props, id) = Undefined THEN Undefined
  ELSE deserialize(getDynamicProperty(props, id))
getCache(d, props, id) ==
  IF d.useCache /\ id \in DOMAIN d.cache THEN d.cache
  ELSE IF getDynamicProperty(props, id) = Undefined THEN d.cache
  ELSE IF d.useCache THEN cacheSet(d.cache, id, deserialize(getDynamicProperty(props, id)))
  ELSE d.cache

\* What has returns for `id`
hasValue(d, props, id) ==
  IF d.useCache /\ id \in DOMAIN d.cache THEN TRUE
  ELSE getDynamicProperty(props, id) # Undefined

\* What entries(segment) returns, from the cache `cache` left by refreshCache or,
\* without a cache, from the world
entriesValue(d, cache, props, segment) ==
  IF d.useCache
  THEN {[key |-> parseId(id).key, segment |-> parseId(id).segment, value |-> cache[id]] :
          id \in {i \in DOMAIN cache :
                    StartsWith(i, prefixOf(segment)) /\ parseId(i) # NullParse}}
  ELSE {[key |-> parseId(id).key, segment |-> parseId(id).segment,
         value |-> deserialize(getDynamicProperty(props, id))] :
          id \in {i \in listIds(props, segment) : parseId(i) # NullParse}}

\* Before new Database(...)
NoDatabase == [open |-> FALSE, useCache |-> FALSE, cachePrimed |-> FALSE, cache |-> EmptyMap]
\* The ids of properties an earlier session may have left in the world: those of the
\* instance's namespace, and one of another namespace.
ForeignId == <<"e", separator, "a">>
WorldIds == {buildId(k, sg) : k \in DbKeys, sg \in Segments} \cup {ForeignId}

---------------------------------------------------------------------------
(* Initial state: the static fields of the class. *)

Init ==
  /\ listenersMap = EmptyMap
  /\ wrappers = <<>>
  /\ stack = <<>>
  /\ jobs = <<>>
  /\ asyncCalls = <<>>
  /\ registered = EmptyMap
  /\ lastError = "none"
  /\ initialized = FALSE
  /\ worldReady = FALSE
  /\ bootstrapCompleted = FALSE
  /\ runtimeCompleted = FALSE
  /\ moduleQueue = <<>>
  /\ importedModules = {}
  /\ entries = <<>>
  /\ loads = EmptyMap
  /\ batches = <<>>
  /\ host = [watchdogSubs |-> 0, worldLoadSubs |-> 0, attached |-> [e \in HostEvents |-> 0]]
  /\ hostQueue = <<>>
  /\ hist = [initCalls |-> 0, ready |-> 0, bootstrapRuns |-> 0, runtimeRuns |-> 0,
             worldLoadEmits |-> 0, readyListeners |-> {}, deliveredAtRuntime |-> {},
             signals |-> 0, shutdownEmits |-> 0, guardFaults |-> 0]
  /\ calls = 0
  /\ properties = EmptyMap
  /\ db = NoDatabase
  /\ returned = [op |-> "none", id |-> <<>>, value |-> Undefined, threw |-> FALSE]

---------------------------------------------------------------------------
(* Dispatcher operations. *)

\* on(eventName, handler)
On(eventName, handler) ==
  /\ AppRuns
  /\ IF ~validateEventName(eventName) \/ ~validateHandler(handler)
     THEN /\ lastError' = "TypeError"
          /\ UNCHANGED <<listenersMap, stack, registered>>
     ELSE /\ lastError' = "none"
          /\ listenersMap' = onMap(listenersMap, eventName, handler)
          /\ stack' = onStack(stack, listenersMap, eventName, handler)
          /\ registered' = RegAdd(registered, eventName, handler)
  /\ UNCHANGED <<wrappers, jobs, asyncCalls>>
  /\ UNCHANGED loaderVars

\* once(eventName, handler): a fresh wrapper closure, registered with on
Once(eventName, handler) ==
  /\ AppRuns
  /\ IF ~validateEventName(eventName) \/ ~validateHandler(handler)
     THEN /\ lastError' = "TypeError"
          /\ UNCHANGED <<listenersMap, stack, registered, wrappers>>
     ELSE /\ Len(wrappers) < MaxOnce
          /\ lastError' = "none"
          /\ wrappers' = Append(wrappers,
                 [eventName |-> eventName, handler |-> handler, completed |-> FALSE,
                  calls |-> 0, payload |-> 0, reached |-> 0])
          /\ listenersMap' = onMap(listenersMap, eventName, Wr(Len(wrappers) + 1))
          /\ stack' = onStack(stack, listenersMap, eventName, Wr(Len(wrappers) + 1))
          /\ registered' = RegAdd(registered, eventName, Wr(Len(wrappers) + 1))
  /\ UNCHANGED <<jobs, asyncCalls>>
  /\ UNCHANGED loaderVars

\* off(eventName, handler), also what an unsubscribe capability calls
Off(eventName, handler) ==
  /\ AppRuns
  /\ IF ~validateEventName(eventName)
     THEN /\ lastError' = "TypeError"
          /\ UNCHANGED <<listenersMap, stack, registered>>
     ELSE IF ~MapHas(listenersMap, eventName)
     THEN /\ lastError' = "none"
          /\ UNCHANGED <<listenersMap, stack, registered>>
     ELSE IF ~validateHandler(handler)
     THEN /\ lastError' = "TypeError"
          /\ UNCHANGED <<listenersMap, stack, registered>>
     ELSE /\ lastError' = "none"
          /\ listenersMap' = offMap(listenersMap, eventName, handler)
          /\ stack' = offStack(stack, listenersMap, eventName, handler)
          /\ registered' = RegRemove(registered, eventName, handler)
  /\ UNCHANGED <<wrappers, jobs, asyncCalls>>
  /\ UNCHANGED loaderVars

\* off(eventName) and clearListeners(eventName)
OffEvent(eventName) ==
  /\ AppRuns
  /\ IF ~validateEventName(eventName)
     THEN /\ lastError' = "TypeError"
          /\ UNCHANGED <<listenersMap, stack, registered>>
     ELSE /\ lastError' = "none"
          /\ listenersMap' = offEventMap(listenersMap, eventName)
          /\ stack' = offEventStack(stack, listenersMap, eventName)
          /\ registered' = RegRemoveEvent(registered, eventName)
  /\ UNCHANGED <<wrappers, jobs, asyncCalls>>
  /\ UNCHANGED loaderVars

\* off(), off(null) and clearListeners()
OffAll ==
  /\ AppRuns
  /\ lastError' = "none"
  /\ listenersMap' = EmptyMap
  /\ stack' = offAllStack(stack)
  /\ registered' = EmptyMap
  /\ UNCHANGED <<wrappers, jobs, asyncCalls>>
  /\ UNCHANGED loaderVars

\* The unsubscribe capability returned by once(): off(eventName, wrapper)
Unsubscribe(w) ==
  /\ w \in 1..Len(wrappers)
  /\ Off(wrappers[w].eventName, Wr(w))

\* emit(eventName, payload), up to the first listener call
Emit(eventName, payload) ==
  /\ AppRuns
  /\ Len(stack) < MaxDepth
  /\ IF ~validateEventName(eventName)
     THEN /\ lastError' = "TypeError"
          /\ UNCHANGED stack
     ELSE /\ lastError' = "none"
          /\ stack' = IF hasHandlers(listenersMap, eventName)
                      THEN Append(stack, NewFrame("emit", eventName, payload, 0, "none"))
                      ELSE stack
  /\ UNCHANGED <<listenersMap, wrappers, jobs, asyncCalls, registered>>
  /\ UNCHANGED loaderVars

\* emitAsync(eventName, payload), up to the first listener call.  An async function:
\* a validation failure rejects the returned promise instead of throwing.
EmitAsync(eventName, payload) ==
  /\ AppRuns
  /\ Len(stack) < MaxDepth
  /\ Len(asyncCalls) < MaxAsync
  /\ lastError' = "none"
  /\ IF ~validateEventName(eventName)
     THEN /\ asyncCalls' = Append(asyncCalls,
                 [eventName |-> eventName, expected |-> <<>>, tasks |-> <<>>, launched |-> {},
                  syncDone |-> TRUE, state |-> "rejected", results |-> <<>>])
          /\ UNCHANGED stack
     ELSE /\ asyncCalls' = Append(asyncCalls,
                 [eventName |-> eventName,
                  expected |-> DeliverySet(listenersMap, eventName),
                  tasks |-> <<>>, launched |-> {},
                  syncDone |-> ~hasHandlers(listenersMap, eventName),
                  state |-> "pending", results |-> <<>>])
          /\ stack' = IF hasHandlers(listenersMap, eventName)
                      THEN Append(stack, NewFrame("emitAsync", eventName, payload,
                                                  Len(asyncCalls) + 1, "none"))
                      ELSE stack
  /\ UNCHANGED <<listenersMap, wrappers, jobs, registered>>
  /\ UNCHANGED loaderVars

\* The loop of emit / emitAsync calls its next listener.  A once() wrapper whose
\* latch is set returns at once; otherwise the listener body starts running.
Invoke ==
  /\ stack # <<>>
  /\ ~Top.running
  /\ Top.idx <= Len(Top.handlers)
  /\ LET f == Top
         fn == f.handlers[f.idx]
         f1 == [f EXCEPT !.called = Append(@,
                  [l |-> fn, name |-> shouldSendEventName(f, fn),
                   reg |-> fn \in RegisteredFor(registered, f.eventName)
                                    \cup RegisteredFor(registered, ANY)])]
         latched == fn.kind = "once" /\ wrappers[fn.id].completed
     IN  /\ stack' = SetTop(stack, IF latched THEN FrameAfterCall(f1, "value", FALSE)
                                   ELSE [f1 EXCEPT !.running = TRUE])
         /\ wrappers' =
              IF fn.kind # "once" THEN wrappers
              ELSE IF latched
              THEN [wrappers EXCEPT ![fn.id].reached = IF @ = 0 THEN f.payload ELSE @]
              ELSE [wrappers EXCEPT ![fn.id] =
                      [latchOnEntry(@) EXCEPT !.calls = @ + 1,
                                              !.payload = f.payload,
                                              !.reached = IF @ = 0 THEN f.payload ELSE @]]
         /\ asyncCalls' = IF latched /\ f.kind = "emitAsync"
                          THEN [asyncCalls EXCEPT ![f.call].tasks = Append(@, TaskOf(fn, "value", 0))]
                          ELSE asyncCalls
  /\ UNCHANGED <<listenersMap, jobs, registered, lastError>>
  /\ UNCHANGED loaderVars

\* The running listener body ends: it returns a plain value, throws, or returns a
\* promise for work still to do (emit ignores return values, so a promise is
\* told apart only under emitAsync).  A once() wrapper then runs its finally.
ListenerEnd(outcome, logFails) ==
  /\ stack # <<>>
  /\ Top.running
  /\ outcome = "promise" => (Top.kind = "emitAsync" /\ Len(jobs) < MaxJobs)
  /\ LET f == Top
         fn == f.handlers[f.idx]
         isOnce == fn.kind = "once"
         ev == IF isOnce THEN wrappers[fn.id].eventName ELSE f.eventName
         stk1 == IF isOnce THEN offStack(stack, listenersMap, ev, fn) ELSE stack
         result == wrapperResult(fn, outcome)
         job == Len(jobs) + 1
     IN  /\ listenersMap' = IF isOnce THEN offMap(listenersMap, ev, fn) ELSE listenersMap
         /\ registered' = IF isOnce THEN RegRemove(registered, ev, fn) ELSE registered
         /\ stack' = SetTop(stk1, FrameAfterCall(stk1[Len(stk1)], result, logFails))
         /\ jobs' = IF outcome = "promise" THEN Append(jobs, "pending") ELSE jobs
         /\ asyncCalls' =
              IF f.kind = "emitAsync"
              THEN [asyncCalls EXCEPT
                      ![f.call].tasks = Append(@, TaskOf(fn, result, job)),
                      ![f.call].launched = IF outcome = "promise" THEN @ \cup {job} ELSE @]
              ELSE asyncCalls
  /\ UNCHANGED <<wrappers, lastError>>
  /\ UNCHANGED loaderVars

\* emit / emitAsync returns to its caller; the world load handler goes on to
\* importPhase(RUNTIME) unless emit threw into its catch.
EmitReturn ==
  /\ stack # <<>>
  /\ ~Top.running
  /\ Top.idx > Len(Top.handlers)
  /\ stack' = Pop(stack)
  /\ asyncCalls' = IF Top.kind = "emitAsync"
                   THEN [asyncCalls EXCEPT ![Top.call].syncDone = TRUE]
                   ELSE asyncCalls
  /\ IF Top.cont = "worldLoad" /\ ~Top.threw
     THEN /\ bootstrapCompleted' = importPhase(RUNTIME).bc
          /\ runtimeCompleted' = importPhase(RUNTIME).rc
          /\ importedModules' = importPhase(RUNTIME).imported
          /\ loads' = importPhase(RUNTIME).loads
          /\ batches' = Append(batches, importPhase(RUNTIME).batch)
          /\ hist' = [hist EXCEPT !.runtimeRuns = @ + 1,
                                  !.deliveredAtRuntime = CalledListeners(Top)]
     ELSE UNCHANGED <<bootstrapCompleted, runtimeCompleted, importedModules, loads,
                      batches, hist>>
  /\ UNCHANGED <<listenersMap, wrappers, jobs, registered, lastError>>
  /\ UNCHANGED <<initialized, worldReady, moduleQueue, entries, host, hostQueue>>

\* A promise returned by a listener body settles.
JobSettle(j, outcome) ==
  /\ StackEmpty
  /\ j \in 1..Len(jobs)
  /\ jobs[j] = "pending"
  /\ jobs' = [jobs EXCEPT ![j] = outcome]
  /\ UNCHANGED <<listenersMap, wrappers, stack, asyncCalls, registered, lastError>>
  /\ UNCHANGED loaderVars

\* Promise.allSettled(tasks) resolves: every task has settled.
AsyncResolve(c) ==
  /\ StackEmpty
  /\ c \in 1..Len(asyncCalls)
  /\ asyncCalls[c].syncDone
  /\ asyncCalls[c].state = "pending"
  /\ \A i \in 1..Len(asyncCalls[c].tasks) : TaskState(asyncCalls[c].tasks[i]) # "pending"
  /\ asyncCalls' = [asyncCalls EXCEPT
        ![c].state = "fulfilled",
        ![c].results = [i \in 1..Len(asyncCalls[c].tasks) |->
                          [l |-> asyncCalls[c].tasks[i].l,
                           status |-> TaskState(asyncCalls[c].tasks[i])]]]
  /\ UNCHANGED <<listenersMap, wrappers, stack, jobs, registered, lastError>>
  /\ UNCHANGED loaderVars

---------------------------------------------------------------------------
(* Staged loader and lifecycle controller. *)

\* registerModule(specifier, { phase, beforeLoad, anchor })
RegisterModule(specifier, phaseOption, beforeLoad, anchor) ==
  /\ AppRuns
  /\ IF ~validateModuleSpecifier(specifier)
     THEN /\ lastError' = "TypeError"
          /\ UNCHANGED <<moduleQueue, entries, importedModules, loads>>
     ELSE IF resolveThrows(specifier, anchor)
     THEN /\ lastError' = "Error"
          /\ UNCHANGED <<moduleQueue, entries, importedModules, loads>>
     ELSE /\ Len(entries) < MaxEntries
          /\ lastError' = "none"
          /\ LET phase == normalizePhase(phaseOption, beforeLoad)
                 resolvedSpecifier == resolveModuleSpecifier(specifier, anchor)
                 entry == [id |-> Len(entries) + 1, specifier |-> resolvedSpecifier,
                           phase |-> phase]
                 st0 == [imported |-> importedModules, loads |-> loads]
                 st == IF phaseReady(phase, bootstrapCompleted, runtimeCompleted)
                       THEN importModule(st0, resolvedSpecifier)
                       ELSE st0
             IN  /\ moduleQueue' = Append(moduleQueue, entry)
                 /\ entries' = Append(entries,
                        [entry |-> entry, cancelled |-> "no", pickedUp |-> FALSE,
                         late |-> IF phase = BOOTSTRAP THEN bootstrapCompleted
                                  ELSE runtimeCompleted])
                 /\ importedModules' = st.imported
                 /\ loads' = st.loads
  /\ UNCHANGED <<listenersMap, wrappers, stack, jobs, asyncCalls, registered>>
  /\ UNCHANGED <<initialized, worldReady, bootstrapCompleted, runtimeCompleted,
                 batches, host, hostQueue, hist>>

\* The cancel closure returned by the k-th registerModule call
Cancel(k) ==
  /\ AppRuns
  /\ k \in 1..Len(entries)
  /\ lastError' = "none"
  /\ moduleQueue' = IF indexOf(moduleQueue, entries[k].entry) >= 1
                    THEN splice(moduleQueue, indexOf(moduleQueue, entries[k].entry))
                    ELSE moduleQueue
  /\ entries' = [entries EXCEPT
        ![k].cancelled =
           IF @ # "no" THEN @
           ELSE IF entries[k].entry.specifier \in importedModules THEN "loaded" ELSE "unloaded",
        ![k].pickedUp =
           IF entries[k].cancelled # "no" THEN @
           ELSE IF entries[k].entry.phase = BOOTSTRAP THEN bootstrapCompleted
           ELSE runtimeCompleted]
  /\ UNCHANGED busVars_noError
  /\ UNCHANGED <<initialized, worldReady, bootstrapCompleted, runtimeCompleted,
                 importedModules, loads, batches, host, hostQueue, hist>>

\* initialize(); `watchdog` is what system.beforeEvents.watchdogTerminate offers
Initialize(watchdog) ==
  /\ AppRuns
  /\ hist.initCalls < MaxInitCalls
  /\ lastError' = "none"
  /\ IF initializeReturns(initialized)
     THEN /\ hist' = [hist EXCEPT !.initCalls = @ + 1]
          /\ UNCHANGED <<initialized, bootstrapCompleted, runtimeCompleted,
                         importedModules, loads, batches, host>>
     ELSE /\ initialized' = TRUE
          /\ host' = [host EXCEPT
                !.watchdogSubs = IF watchdog = "ok" THEN @ + 1 ELSE @,
                !.worldLoadSubs = @ + 1]
          /\ bootstrapCompleted' = importPhase(BOOTSTRAP).bc
          /\ runtimeCompleted' = importPhase(BOOTSTRAP).rc
          /\ importedModules' = importPhase(BOOTSTRAP).imported
          /\ loads' = importPhase(BOOTSTRAP).loads
          /\ batches' = Append(batches, importPhase(BOOTSTRAP).batch)
          /\ hist' = [hist EXCEPT !.initCalls = @ + 1, !.bootstrapRuns = @ + 1]
  /\ UNCHANGED busVars_noError
  /\ UNCHANGED <<worldReady, moduleQueue, entries, hostQueue>>

\* The host raises its world load event: one callback per subscription.
ReadinessDelivery ==
  /\ StackEmpty
  /\ hostQueue = <<>>
  /\ host.worldLoadSubs >= 1
  /\ hist.ready < MaxReady
  /\ hostQueue' = Repeat([type |-> "worldLoad", event |-> WORLD_LOAD], host.worldLoadSubs)
  /\ hist' = [hist EXCEPT !.ready = @ + 1]
  /\ UNCHANGED busVars
  /\ UNCHANGED <<initialized, worldReady, bootstrapCompleted, runtimeCompleted,
                 moduleQueue, importedModules, entries, loads, batches, host>>

\* The callback initialize() subscribed to world load; `profile` is what the host
\* offers for each binding at that moment.
WorldLoadHandler(profile) ==
  /\ StackEmpty
  /\ hostQueue # <<>>
  /\ Head(hostQueue).type = "worldLoad"
  /\ hostQueue' = Tail(hostQueue)
  /\ IF worldLoadReturns(worldReady)
     THEN UNCHANGED <<worldReady, host, stack, hist, bootstrapCompleted, runtimeCompleted,
                      importedModules, loads, batches>>
     ELSE /\ worldReady' = TRUE
          /\ host' = [host EXCEPT !.attached = attachMinecraftEvents(@, profile).attached]
          /\ IF attachMinecraftEvents(host.attached, profile).threw
             THEN \* catch (error) { console.error(...) }
                  UNCHANGED <<stack, hist, bootstrapCompleted, runtimeCompleted,
                              importedModules, loads, batches>>
             ELSE IF hasHandlers(listenersMap, WORLD_LOAD)
             THEN /\ stack' = Append(stack, NewFrame("emit", WORLD_LOAD, 1, 0, "worldLoad"))
                  /\ hist' = [hist EXCEPT
                        !.worldLoadEmits = @ + 1,
                        !.readyListeners = RegisteredFor(registered, WORLD_LOAD)
                                             \cup RegisteredFor(registered, ANY)]
                  /\ UNCHANGED <<bootstrapCompleted, runtimeCompleted, importedModules, loads,
                                 batches>>
             ELSE /\ bootstrapCompleted' = importPhase(RUNTIME).bc
                  /\ runtimeCompleted' = importPhase(RUNTIME).rc
                  /\ importedModules' = importPhase(RUNTIME).imported
                  /\ loads' = importPhase(RUNTIME).loads
                  /\ batches' = Append(batches, importPhase(RUNTIME).batch)
                  /\ hist' = [hist EXCEPT
                        !.worldLoadEmits = @ + 1, !.runtimeRuns = @ + 1,
                        !.readyListeners = RegisteredFor(registered, WORLD_LOAD)
                                             \cup RegisteredFor(registered, ANY)]
                  /\ UNCHANGED stack
  /\ UNCHANGED <<listenersMap, wrappers, jobs, asyncCalls, registered, lastError>>
  /\ UNCHANGED <<initialized, moduleQueue, entries>>

\* The host raises the event of an attached source: one callback per subscription.
HostEvent(event) ==
  /\ StackEmpty
  /\ hostQueue = <<>>
  /\ host.attached[event] >= 1
  /\ hostQueue' = Repeat([type |-> "emit", event |-> event], host.attached[event])
  /\ UNCHANGED busVars
  /\ UNCHANGED <<initialized, worldReady, bootstrapCompleted, runtimeCompleted,
                 moduleQueue, importedModules, entries, loads, batches, host, hist>>

\* (payload) => this.emit(event, payload)
HostCallback ==
  /\ StackEmpty
  /\ hostQueue # <<>>
  /\ Head(hostQueue).type = "emit"
  /\ hostQueue' = Tail(hostQueue)
  /\ stack' = IF hasHandlers(listenersMap, Head(hostQueue).event)
              THEN Append(stack, NewFrame("emit", Head(hostQueue).event, 1, 0, "none"))
              ELSE stack
  /\ UNCHANGED <<listenersMap, wrappers, jobs, asyncCalls, registered, lastError>>
  /\ UNCHANGED <<initialized, worldReady, bootstrapCompleted, runtimeCompleted,
                 moduleQueue, importedModules, entries, loads, batches, host, hist>>

\* The host raises its watchdog signal: one callback per subscription.
WatchdogSignal ==
  /\ StackEmpty
  /\ hostQueue = <<>>
  /\ host.watchdogSubs >= 1
  /\ hist.signals < MaxSignals
  /\ hostQueue' = Repeat([type |-> "watchdog", event |-> SHUTDOWN], host.watchdogSubs)
  /\ hist' = [hist EXCEPT !.signals = @ + 1]
  /\ UNCHANGED busVars
  /\ UNCHANGED <<initialized, worldReady, bootstrapCompleted, runtimeCompleted,
                 moduleQueue, importedModules, entries, loads, batches, host>>

\* The callback setupWatchdogGuard subscribed: cancel the termination, warn, emit
\* the shutdown event; the first two steps may fail.
WatchdogCallback(cancelFails, warnFails) ==
  /\ StackEmpty
  /\ hostQueue # <<>>
  /\ Head(hostQueue).type = "watchdog"
  /\ hostQueue' = Tail(hostQueue)
  /\ IF watchdogEmits(cancelFails, warnFails)
     THEN /\ stack' = IF hasHandlers(listenersMap, SHUTDOWN)
                      THEN Append(stack, NewFrame("emit", SHUTDOWN,
                                                  shutdownPayload("signal"), 0, "watchdog"))
                      ELSE stack
          /\ hist' = [hist EXCEPT
                !.shutdownEmits = @ + 1,
                !.guardFaults = IF cancelFails \/ warnFails THEN @ + 1 ELSE @]
     ELSE /\ hist' = [hist EXCEPT !.guardFaults = @ + 1]
          /\ UNCHANGED stack
  /\ UNCHANGED <<listenersMap, wrappers, jobs, asyncCalls, registered, lastError>>
  /\ UNCHANGED <<initialized, worldReady, bootstrapCompleted, runtimeCompleted,
                 moduleQueue, importedModules, entries, loads, batches, host>>

\* The promise of import(specifier) settles.
LoadSettle(specifier, outcome) ==
  /\ StackEmpty
  /\ specifier \in DOMAIN loads
  /\ loads[specifier].state = "pending"
  /\ loads' = [loads EXCEPT ![specifier].state = outcome]
  /\ UNCHANGED busVars
  /\ UNCHANGED <<initialized, worldReady, bootstrapCompleted, runtimeCompleted,
                 moduleQueue, importedModules, entries, batches, host, hostQueue, hist>>

\* importPhase after its await: every importModule promise has settled; the failures
\* are counted and, if there are any, reported in one console.error.
BatchSettle(b) ==
  /\ StackEmpty
  /\ b \in 1..Len(batches)
  /\ batches[b].state = "pending"
  /\ \A i \in 1..Len(batches[b].tasks) :
       batches[b].tasks[i].fresh => loads[batches[b].tasks[i].specifier].state # "pending"
  /\ batches' = [batches EXCEPT
        ![b].state = "settled",
        ![b].failures = failuresOf(batches[b].tasks, loads),
        ![b].summary = IF failuresOf(batches[b].tasks, loads) > 0
                       THEN <<failuresOf(batches[b].tasks, loads)>> ELSE <<>>]
  /\ UNCHANGED busVars
  /\ UNCHANGED <<initialized, worldReady, bootstrapCompleted, runtimeCompleted,
                 moduleQueue, importedModules, entries, loads, host, hostQueue, hist>>

---------------------------------------------------------------------------
(* Database operations. *)

Returned(op, id, value) == [op |-> op, id |-> id, value |-> value, threw |-> FALSE]
Threw(op) == [op |-> op, id |-> <<>>, value |-> Undefined, threw |-> TRUE]

\* A property an earlier session left in the world, before the instance exists.
WorldProperty(id, value) ==
  /\ ~db.open
  /\ properties' = setDynamicProperty(properties, id, value)
  /\ UNCHANGED <<db, returned>>
  /\ UNCHANGED appVars

\* new Database(name, { useCache, eagerLoad })
DbNew(useCache, eagerLoad) ==
  /\ ~db.open
  /\ db' = [open |-> TRUE, useCache |-> useCache,
            cachePrimed |-> useCache /\ eagerLoad,
            cache |-> IF useCache /\ eagerLoad
                      THEN refreshCache(EmptyMap, properties, NoSegment)
                      ELSE EmptyMap]
  /\ returned' = Returned("new", <<>>, Undefined)
  /\ UNCHANGED properties
  /\ UNCHANGED appVars

\* get(key, segment)
DbGet(key, segment) ==
  /\ db.open
  /\ IF buildIdThrows(key, segment)
     THEN /\ returned' = Threw("get")
          /\ UNCHANGED db
     ELSE LET id == buildId(key, segment)
          IN  /\ returned' = Returned("get", id, getValue(db, properties, id))
              /\ db' = [db EXCEPT !.cache = getCache(db, properties, id)]
  /\ UNCHANGED properties
  /\ UNCHANGED appVars

\* set(key, value, segment)
DbSet(key, value, segment) ==
  /\ db.open
  /\ IF buildIdThrows(key, segment)
     THEN /\ returned' = Threw("set")
          /\ UNCHANGED <<db, properties>>
     ELSE LET id == buildId(key, segment)
          IN  /\ properties' = setDynamicProperty(properties, id, serialize(value))
              /\ db' = [db EXCEPT !.cache = IF db.useCache THEN cacheSet(@, id, value) ELSE @]
              /\ returned' = Returned("set", id, value)
  /\ UNCHANGED appVars

\* delete(key, segment)
DbDelete(key, segment) ==
  /\ db.open
  /\ IF buildIdThrows(key, segment)
     THEN /\ returned' = Threw("delete")
          /\ UNCHANGED <<db, properties>>
     ELSE LET id == buildId(key, segment)
          IN  /\ properties' = setDynamicProperty(properties, id, Undefined)
              /\ db' = [db EXCEPT !.cache = IF db.useCache THEN cacheDelete(@, id) ELSE @]
              /\ returned' = Returned("delete", id, Undefined)
  /\ UNCHANGED appVars

\* has(key, segment)
DbHas(key, segment) ==
  /\ db.open
  /\ returned' = IF buildIdThrows(key, segment) THEN Threw("has")
                 ELSE Returned("has", buildId(key, segment),
                               hasValue(db, properties, buildId(key, segment)))
  /\ UNCHANGED <<db, properties>>
  /\ UNCHANGED appVars

\* update(key, updater, segment), for an updater that returns `next`
DbUpdate(key, next, segment) ==
  /\ db.open
  /\ IF buildIdThrows(key, segment)
     THEN /\ returned' = Threw("update")
          /\ UNCHANGED <<db, properties>>
     ELSE LET id == buildId(key, segment)
              got == getCache(db, properties, id)
          IN  /\ properties' = setDynamicProperty(properties, id,
                                 IF next = Undefined THEN Undefined ELSE serialize(next))
              /\ db' = [db EXCEPT !.cache =
                          IF ~db.useCache THEN @
                          ELSE IF next = Undefined THEN cacheDelete(got, id)
                          ELSE cacheSet(got, id, next)]
              /\ returned' = Returned("update", id, next)
  /\ UNCHANGED appVars

\* entries(segment)
DbEntries(segment) ==
  /\ db.open
  /\ LET cache == IF db.useCache THEN refreshCache(db.cache, properties, segment)
                  ELSE db.cache
     IN  /\ db' = [db EXCEPT !.cache = cache, !.cachePrimed = @ \/ db.useCache]
         /\ returned' = Returned("entries", prefixOf(segment),
                                 entriesValue(db, cache, properties, segment))
  /\ UNCHANGED properties
  /\ UNCHANGED appVars

\* clear(segment)
DbClear(segment) ==
  /\ db.open
  /\ properties' = [i \in DOMAIN properties \ listIds(properties, segment) |-> properties[i]]
  /\ db' = [db EXCEPT !.cache =
              IF db.useCache
              THEN [i \in DOMAIN @ \ listIds(properties, segment) |-> @[i]]
              ELSE @]
  /\ returned' = Returned("clear", prefixOf(segment), Undefined)
  /\ UNCHANGED appVars

\* refreshCache(segment)
DbRefreshCache(segment) ==
  /\ db.open
  /\ db.useCache
  /\ db' = [db EXCEPT !.cache = refreshCache(@, properties, segment), !.cachePrimed = TRUE]
  /\ returned' = Returned("refreshCache", prefixOf(segment), Undefined)
  /\ UNCHANGED properties
  /\ UNCHANGED appVars

---------------------------------------------------------------------------
(* Specifications. *)

Anchor == <<"m", ":", "/", "d", "/", "i">>
\* Valid registerModule arguments: <<specifier, anchor>>
SpecifierInputs ==
  { << <<"a">>, NoAnchor >>, << <<" ", "a">>, NoAnchor >>, << <<".", "/", "b">>, Anchor >> }
PhaseOptions == {BOOTSTRAP, RUNTIME, "after", "undefined"}
WatchdogOffers == {"ok", "absent", "throws"}
ListenerOutcomes == {"value", "throw", "promise"}

\* A step that is no dispatcher call of application code.
Quiet == UNCHANGED calls /\ UNCHANGED dbVars
\* A dispatcher call of application code, counted.
Counted == calls < MaxCalls /\ calls' = calls + 1 /\ UNCHANGED dbVars

\* The loader and the lifecycle, with one application listener.
Next ==
  \/ Quiet /\ On(ANY, Fn(1))
  \/ Quiet /\ \E in \in SpecifierInputs, ph \in PhaseOptions, bl \in BOOLEAN :
        RegisterModule(in[1], ph, bl, in[2])
  \/ Quiet /\ \E k \in 1..MaxEntries : Cancel(k)
  \/ Quiet /\ \E wd \in WatchdogOffers : Initialize(wd)
  \/ Quiet /\ ReadinessDelivery
  \/ Quiet /\ \E profile \in HostProfiles : WorldLoadHandler(profile)
  \/ Quiet /\ HostEvent(ITEM_USE)
  \/ Quiet /\ HostCallback
  \/ Quiet /\ Invoke
  \/ Quiet /\ \E o \in {"value", "throw"} : ListenerEnd(o, FALSE)
  \/ Quiet /\ EmitReturn
  \/ Quiet /\ \E sp \in DOMAIN loads, o \in {"fulfilled", "rejected"} : LoadSettle(sp, o)
  \/ Quiet /\ \E b \in 1..Len(batches) : BatchSettle(b)

Spec == Init /\ [][Next]_vars

BusEvents == {"x", ANY}

\* The dispatcher on its own.
NextBus ==
  \/ Counted /\ \E e \in BusEvents, h \in Handlers : On(e, h)
  \/ Counted /\ \E e \in BusEvents, h \in Handlers : Once(e, h)
  \/ Counted /\ \E e \in BusEvents, h \in Handlers : Off(e, h)
  \/ Counted /\ \E w \in 1..MaxOnce : Unsubscribe(w)
  \/ Counted /\ \E e \in BusEvents : OffEvent(e)
  \/ Counted /\ OffAll
  \/ Counted /\ \E e \in BusEvents, p \in Payloads : Emit(e, p)
  \/ Counted /\ \E e \in BusEvents, p \in Payloads : EmitAsync(e, p)
  \/ Quiet /\ Invoke
  \/ Quiet /\ \E o \in ListenerOutcomes, lf \in BOOLEAN : ListenerEnd(o, lf)
  \/ Quiet /\ EmitReturn
  \/ Quiet /\ \E j \in 1..MaxJobs, o \in {"fulfilled", "rejected"} : JobSettle(j, o)
  \/ Quiet /\ \E c \in 1..MaxAsync : AsyncResolve(c)

SpecBus == Init /\ [][NextBus]_vars

\* Arguments a caller must not pass.
BadListenerCalls == {<<NonString, Fn(1)>>, <<SHUTDOWN, NotCallable>>}
BadSpecifierInputs ==
  { << <<>>, NoAnchor >>, << <<" ">>, Anchor >>, << NonStringSpecifier, NoAnchor >>,
    << <<".", "/", "b">>, NoAnchor >>, << <<" ", ".", ".", "/", "b">>, NoAnchor >> }

\* Calls with valid and with invalid arguments, and the watchdog guard.
NextGuard ==
  \/ Counted /\ \E h \in Handlers : On(SHUTDOWN, h)
  \/ Counted /\ \E c \in BadListenerCalls : On(c[1], c[2])
  \/ Counted /\ \E c \in BadListenerCalls : Once(c[1], c[2])
  \/ Counted /\ \E p \in Payloads : Emit(NonString, p)
  \/ Quiet /\ \E ph \in {BOOTSTRAP, RUNTIME} : RegisterModule(<<"a">>, ph, FALSE, NoAnchor)
  \/ Quiet /\ \E in \in BadSpecifierInputs, ph \in {BOOTSTRAP, RUNTIME} :
        RegisterModule(in[1], ph, FALSE, in[2])
  \/ Quiet /\ \E wd \in WatchdogOffers : Initialize(wd)
  \/ Quiet /\ WatchdogSignal
  \/ Quiet /\ \E cf, wf \in BOOLEAN : WatchdogCallback(cf, wf)
  \/ Quiet /\ Invoke
  \/ Quiet /\ \E o \in {"value", "throw"}, lf \in BOOLEAN : ListenerEnd(o, lf)
  \/ Quiet /\ EmitReturn

SpecGuard == Init /\ [][NextGuard]_vars

\* One Database instance over a world an earlier session may have written.
NextDb ==
  \/ \E id \in WorldIds, v \in DbValues : WorldProperty(id, v)
  \/ \E uc, el \in BOOLEAN : DbNew(uc, el)
  \/ \E in \in DbInputs : DbGet(in[1], in[2])
  \/ \E in \in DbInputs, v \in DbValues \cup {Undefined} : DbSet(in[1], v, in[2])
  \/ \E in \in DbInputs : DbDelete(in[1], in[2])
  \/ \E in \in DbInputs : DbHas(in[1], in[2])
  \/ \E in \in DbInputs, v \in DbValues \cup {Undefined} : DbUpdate(in[1], v, in[2])
  \/ \E sg \in Segments : DbEntries(sg)
  \/ \E sg \in Segments : DbClear(sg)
  \/ \E sg \in Segments : DbRefreshCache(sg)

SpecDb == Init /\ [][NextDb]_vars

---------------------------------------------------------------------------
(* Properties. *)

Gate(phase) == IF phase = BOOTSTRAP THEN bootstrapCompleted ELSE runtimeCompleted
Finished(f) == ~f.running /\ f.idx > Len(f.handlers)
NoDuplicates(seq) == \A i, j \in 1..Len(seq) : seq[i] = seq[j] => i = j
\* The body of wrapper w's handler is executing in some frame.
HandlerRunning(w) ==
  \E i \in 1..Len(stack) : stack[i].running /\ stack[i].handlers[stack[i].idx] = Wr(w)

\* A live reference of a frame is the Set the registry holds (sanity of the aliasing model).
RefsConsistent ==
  \A i \in 1..Len(stack) :
    /\ (stack[i].specific.def /\ stack[i].specific.live) =>
         (MapHas(listenersMap, stack[i].eventName)
            /\ listenersMap[stack[i].eventName] = stack[i].specific.items)
    /\ (stack[i].wildcard.def /\ stack[i].wildcard.live) =>
         (MapHas(listenersMap, ANY) /\ listenersMap[ANY] = stack[i].wildcard.items)

\* C1: the load capability (import) is invoked at most once per resolved specifier,
\* however often and under whichever phases the specifier is registered and
\* whether its load succeeded or failed.
C1_LoadAtMostOnce ==
  \A sp \in DOMAIN loads : loads[sp].count <= 1

\* A specifier registered twice, once per phase, both batches run, its single load failed.
C1_Witness ==
  /\ bootstrapCompleted /\ runtimeCompleted
  /\ \E i, j \in 1..Len(moduleQueue) :
       /\ moduleQueue[i].specifier = moduleQueue[j].specifier
       /\ moduleQueue[i].phase = BOOTSTRAP /\ moduleQueue[j].phase = RUNTIME
       /\ LoadOf(loads, moduleQueue[i].specifier) = [count |-> 1, state |-> "rejected"]

\* C2: whenever a phase's gate is true, every entry of that phase in the load queue
\* has its specifier in importedModules; a registration made after the gate turned
\* true is loaded by registerModule itself.
C2_NoEntryStranded ==
  \A i \in 1..Len(moduleQueue) :
    Gate(moduleQueue[i].phase) => moduleQueue[i].specifier \in importedModules

\* An entry registered after its gate was true, while a load of the phase's batch is
\* still in flight, is in the queue and loaded.
C2_Witness ==
  \E i \in 1..Len(moduleQueue) :
    /\ entries[moduleQueue[i].id].late
    /\ moduleQueue[i].specifier \in importedModules
    /\ \E j \in 1..Len(moduleQueue) :
         /\ j # i /\ ~entries[moduleQueue[j].id].late
         /\ moduleQueue[j].phase = moduleQueue[i].phase
         /\ LoadOf(loads, moduleQueue[j].specifier).state = "pending"

\* C3: a specifier is loaded only if some registration of it was not cancelled while
\* it was still unloaded (so cancelling the only registration before its phase runs
\* keeps it unloaded for good); a specifier whose registration is cancelled after it
\* was loaded stays in importedModules and has been imported exactly once.
C3_CancelBeforeAndAfter ==
  /\ \A sp \in importedModules :
       \E k \in 1..Len(entries) :
         entries[k].entry.specifier = sp /\ entries[k].cancelled # "unloaded"
  /\ \A k \in 1..Len(entries) :
       entries[k].cancelled = "loaded" =>
         /\ entries[k].entry.specifier \in importedModules
         /\ LoadOf(loads, entries[k].entry.specifier).count = 1

\* Both phases have run; one registration was cancelled before its phase and its
\* specifier is not loaded, another was cancelled after its load.
C3_Witness ==
  /\ bootstrapCompleted /\ runtimeCompleted
  /\ moduleQueue = <<>>
  /\ \E k \in 1..Len(entries) :
       entries[k].cancelled = "unloaded" /\ entries[k].entry.specifier \notin importedModules
  /\ \E k \in 1..Len(entries) :
       entries[k].cancelled = "loaded" /\ entries[k].entry.specifier \in importedModules

\* C9: initialize() is idempotent: the fatal-signal guard is installed at most once,
\* the Bootstrap batch triggered at most once, the readiness event subscribed at most
\* once, and a call made when initialized is already true changes nothing.
C9_InitializeIdempotent ==
  /\ [](host.watchdogSubs <= 1 /\ host.worldLoadSubs <= 1 /\ hist.bootstrapRuns <= 1)
  /\ [][(initialized /\ hist'.initCalls = hist.initCalls + 1) =>
          UNCHANGED <<listenersMap, wrappers, stack, jobs, asyncCalls, registered,
                      initialized, worldReady, bootstrapCompleted, runtimeCompleted,
                      moduleQueue, importedModules, entries, loads, batches, host,
                      hostQueue>>]_vars

\* initialize() has been called twice, with a watchdog signal present and a
\* Bootstrap entry queued before the first call.
C9_Witness ==
  /\ hist.initCalls = 2
  /\ host.watchdogSubs = 1 /\ host.worldLoadSubs = 1 /\ hist.bootstrapRuns = 1
  /\ \E i \in 1..Len(moduleQueue) :
       moduleQueue[i].phase = BOOTSTRAP /\ ~entries[moduleQueue[i].id].late

\* C10: only the first readiness delivery has an effect: every host source is
\* attached at most once (a host event runs one callback, hence one emit), the
\* synthetic readiness event is emitted at most once, the Runtime batch is triggered
\* at most once, and the handler run for a later delivery changes nothing.
C10_ReadinessOnce ==
  /\ [](/\ \A e \in HostEvents : host.attached[e] <= 1
        /\ hist.worldLoadEmits <= 1
        /\ hist.runtimeRuns <= 1
        /\ Len(SelectSeq(hostQueue, LAMBDA c : c.type = "emit")) <= 1)
  /\ [][(/\ worldReady
         /\ hostQueue # <<>>
         /\ Head(hostQueue).type = "worldLoad"
         /\ hostQueue' = Tail(hostQueue)) =>
          UNCHANGED <<listenersMap, wrappers, stack, jobs, asyncCalls, registered,
                      initialized, worldReady, bootstrapCompleted, runtimeCompleted,
                      moduleQueue, importedModules, entries, loads, batches, host,
                      hist>>]_vars

\* The host has delivered readiness twice; the sources are attached once, the event
\* was emitted once, the Runtime batch ran once, and a host event is being delivered.
C10_Witness ==
  /\ hist.ready = 2
  /\ host.attached[ITEM_USE] = 1
  /\ hist.worldLoadEmits = 1 /\ hist.runtimeRuns = 1
  /\ hostQueue = <<[type |-> "emit", event |-> ITEM_USE]>>

\* C4: the handler of a once() registration is called at most once, also when the
\* event is emitted again from inside the dispatch; it gets the payload of the first
\* emit that invoked the wrapper, and once it has run the wrapper is no longer
\* registered for its event.
C4_OnceAtMostOnce ==
  \A w \in 1..Len(wrappers) :
    /\ wrappers[w].calls <= 1
    /\ wrappers[w].calls = 1 => wrappers[w].payload = wrappers[w].reached
    /\ (wrappers[w].calls = 1 /\ ~HandlerRunning(w)) =>
          ~Contains(SetOrEmpty(listenersMap, wrappers[w].eventName), Wr(w))

\* The handler of a once() registration is running and has emitted again with
\* another payload; the nested pass has invoked the wrapper too.
C4_Witness ==
  /\ Len(stack) = 2
  /\ Len(wrappers) >= 1
  /\ HandlerRunning(1)
  /\ Wr(1) \in CalledListeners(stack[1])
  /\ Wr(1) \in CalledListeners(stack[2])
  /\ stack[1].payload # stack[2].payload
  /\ wrappers[1].calls = 1

\* C5: within one emit / emitAsync call no listener is invoked twice, and when the
\* call returns every listener that was registered under the event or the wildcard
\* when it started has been invoked exactly once.
C5_NoDoubleInvoke ==
  \A i \in 1..Len(stack) :
    /\ NoDuplicates([k \in 1..Len(stack[i].called) |-> stack[i].called[k].l])
    /\ CalledListeners(stack[i]) \subseteq stack[i].start
    /\ (Finished(stack[i]) /\ ~stack[i].threw) => CalledListeners(stack[i]) = stack[i].start

\* A call for "x" is about to return; one of its listeners was registered under both
\* "x" and the wildcard, and there was a second listener.
C5_Witness ==
  \E i \in 1..Len(stack) :
    /\ Finished(stack[i])
    /\ stack[i].eventName # ANY
    /\ stack[i].both # {}
    /\ Cardinality(stack[i].start) >= 2

\* C6: in emit a throwing listener does not keep the remaining listeners of the
\* delivery set from being called, and emit returns normally.
C6_ThrowIsolated ==
  \A i \in 1..Len(stack) :
    stack[i].kind = "emit" =>
      /\ ~stack[i].threw
      /\ Finished(stack[i]) =>
           /\ Len(stack[i].results) = Cardinality(stack[i].start)
           /\ CalledListeners(stack[i]) = stack[i].start

\* An emit is about to return; its first listener threw and a second one was called.
C6_Witness ==
  \E i \in 1..Len(stack) :
    /\ stack[i].kind = "emit"
    /\ Finished(stack[i])
    /\ Len(stack[i].results) >= 2
    /\ stack[i].results[1] = "throw"

\* C7: emitAsync resolves only after the asynchronous work of every listener it
\* launched (registered with on or once) has finished, with one outcome per listener
\* of the delivery set, in delivery order, and it never rejects.
C7_AsyncWaitsForAll ==
  \A c \in 1..Len(asyncCalls) :
    /\ asyncCalls[c].state # "rejected"
    /\ asyncCalls[c].state = "fulfilled" =>
         /\ \A j \in asyncCalls[c].launched : jobs[j] # "pending"
         /\ Len(asyncCalls[c].results) = Len(asyncCalls[c].expected)
         /\ \A i \in 1..Len(asyncCalls[c].results) :
              asyncCalls[c].results[i].l = asyncCalls[c].expected[i]

\* C8: listenerCount(event) is the number of distinct listeners registered for the
\* event by on and not removed since; registering a listener twice counts once.
C8_ListenerCount ==
  \A e \in (DOMAIN listenersMap) \cup {p[1] : p \in DOMAIN registered} :
    listenerCount(e) = Cardinality(RegisteredFor(registered, e))

\* A listener has been registered twice for an event that has a second listener too.
C8_Witness ==
  \E p \in DOMAIN registered :
    /\ registered[p].n = 2
    /\ listenerCount(p[1]) = 2

\* C11: the Runtime gate is true only if initialize has run, the Bootstrap gate is
\* true and a readiness delivery has occurred; and the load of a specifier registered
\* for the Runtime phase only never starts before the first readiness delivery.
C11_RuntimeUnlockedByReadiness ==
  /\ runtimeCompleted => (initialized /\ bootstrapCompleted /\ hist.ready >= 1)
  /\ \A sp \in DOMAIN loads :
       (\A k \in 1..Len(entries) :
           entries[k].entry.specifier = sp => entries[k].entry.phase = RUNTIME)
         => hist.ready >= 1

\* The Runtime batch has run and started the load of a specifier that was registered
\* for the Runtime phase only, before the gate was true.
C11_Witness ==
  /\ runtimeCompleted
  /\ \E i \in 1..Len(moduleQueue) :
       /\ moduleQueue[i].phase = RUNTIME
       /\ ~entries[moduleQueue[i].id].late
       /\ LoadOf(loads, moduleQueue[i].specifier).count = 1
       /\ \A k \in 1..Len(entries) :
            entries[k].entry.specifier = moduleQueue[i].specifier
              => entries[k].entry.phase = RUNTIME

\* C12: on the first readiness delivery the host sources are attached, then the
\* readiness event is emitted, then the Runtime batch is triggered: no host event is
\* dispatched (nor a source attached) before the first readiness delivery, the sources
\* are attached when the readiness event is emitted, the Runtime batch does not run
\* while the readiness event is being delivered, and when it runs the event has been
\* delivered to every listener that was registered for it.
C12_ReadinessOrder ==
  /\ (\E e \in HostEvents : host.attached[e] >= 1) => (worldReady /\ hist.ready >= 1)
  /\ (\E i \in 1..Len(hostQueue) : hostQueue[i].type = "emit") => worldReady
  /\ (\E i \in 1..Len(stack) : stack[i].eventName \in HostEvents) => worldReady
  /\ hist.worldLoadEmits >= 1 => host.attached[ITEM_USE] = 1
  /\ (\E i \in 1..Len(stack) : stack[i].cont = "worldLoad") =>
        (hist.runtimeRuns = 0 /\ ~runtimeCompleted)
  /\ hist.runtimeRuns >= 1 =>
        (hist.worldLoadEmits >= 1 /\ hist.deliveredAtRuntime = hist.readyListeners)
  /\ (runtimeCompleted \/ \E b \in 1..Len(batches) : batches[b].phase = RUNTIME)
        => hist.runtimeRuns >= 1

\* The readiness event was delivered to a listener, then the Runtime batch started a
\* load, and now an event of an attached host source is being dispatched.
C12_Witness ==
  /\ hist.runtimeRuns = 1
  /\ hist.readyListeners = {Fn(1)} /\ hist.deliveredAtRuntime = {Fn(1)}
  /\ \E b \in 1..Len(batches) : batches[b].phase = RUNTIME /\ batches[b].tasks # <<>>
  /\ \E i \in 1..Len(stack) : stack[i].eventName = ITEM_USE

\* C13: once initialize has been called every Bootstrap entry of the queue has its
\* load started; and once the host has delivered readiness and the handler has run
\* to its end, the Runtime gate is true and the load of every Runtime entry of the
\* queue has been started, whatever sources are absent or fail to bind and whatever
\* the listeners of the readiness event do.
C13_StartupProgress ==
  /\ initialized =>
        \A i \in 1..Len(moduleQueue) :
          moduleQueue[i].phase = BOOTSTRAP => LoadOf(loads, moduleQueue[i].specifier).count >= 1
  /\ (hist.ready >= 1 /\ StackEmpty /\ hostQueue = <<>>) =>
        /\ runtimeCompleted
        /\ \A i \in 1..Len(moduleQueue) :
             moduleQueue[i].phase = RUNTIME => LoadOf(loads, moduleQueue[i].specifier).count >= 1

\* C14: initialized, the readiness latch and the two gates never go from true back
\* to false, and a phase's gate is true as soon as the phase's batch load has been
\* attempted, also when no entry of the phase is queued.
C14_Monotonic ==
  /\ [][/\ initialized => initialized'
        /\ worldReady => worldReady'
        /\ bootstrapCompleted => bootstrapCompleted'
        /\ runtimeCompleted => runtimeCompleted']_vars
  /\ [](hist.bootstrapRuns >= 1 => bootstrapCompleted)
  /\ [](hist.runtimeRuns >= 1 => runtimeCompleted)

\* Both batch loads were attempted with an empty queue, and both gates are true.
C14_Witness ==
  /\ entries = <<>>
  /\ hist.bootstrapRuns = 1 /\ hist.runtimeRuns = 1
  /\ bootstrapCompleted /\ runtimeCompleted

\* C15: a failing load is isolated: the load of every specifier of a phase's batch is
\* started whatever happens to the others, the batch settles only when all its loads
\* have settled and is not cut short by a failure, and no failure reaches the caller
\* of initialize or registerModule.
C15_FailingLoadIsolated ==
  /\ lastError = "none"
  /\ \A b \in 1..Len(batches) :
       /\ \A i \in 1..Len(batches[b].tasks) :
            LoadOf(loads, batches[b].tasks[i].specifier).count >= 1
       /\ batches[b].state = "settled" =>
            \A i \in 1..Len(batches[b].tasks) :
              batches[b].tasks[i].fresh =>
                loads[batches[b].tasks[i].specifier].state \in {"fulfilled", "rejected"}

\* A batch of two distinct specifiers has settled: the load of the first failed, the
\* load of the second was started all the same and succeeded.
C15_Witness ==
  \E b \in 1..Len(batches) :
    /\ batches[b].state = "settled"
    /\ Len(batches[b].tasks) = 2
    /\ batches[b].tasks[1].fresh /\ batches[b].tasks[2].fresh
    /\ loads[batches[b].tasks[1].specifier] = [count |-> 1, state |-> "rejected"]
    /\ loads[batches[b].tasks[2].specifier] = [count |-> 1, state |-> "fulfilled"]

\* C16: when k >= 1 loads of a phase's batch fail, the batch reports one summary
\* carrying the count k, and it reports none when no load failed.
C16_AggregateSummary ==
  \A b \in 1..Len(batches) :
    batches[b].state = "settled" =>
      LET failed == {i \in 1..Len(batches[b].tasks) :
                       /\ batches[b].tasks[i].fresh
                       /\ loads[batches[b].tasks[i].specifier].state = "rejected"}
      IN  batches[b].summary = IF failed # {} THEN <<Cardinality(failed)>> ELSE <<>>

\* C17: cancelling an entry after its phase's batch load has picked it up (or after
\* it was loaded on registration) leaves the load queue unchanged: such an entry is
\* still in the queue after its cancel closure has been invoked.
C17_CancelAfterPickupNoOp ==
  \A k \in 1..Len(entries) :
    entries[k].pickedUp => indexOf(moduleQueue, entries[k].entry) >= 1

\* C18: removing a listener (off, an unsubscribe capability) from inside a listener
\* while an emit pass is in progress does not keep any listener chosen for the pass,
\* the removed one included, from being delivered to; and a pass delivers only to
\* listeners that were registered when it started, so a removed listener is not
\* invoked by a later pass unless it was registered again.
C18_RemovalDuringDispatch ==
  \A i \in 1..Len(stack) :
    /\ Range(stack[i].handlers) = stack[i].start
    /\ \A k \in 1..Len(stack[i].called) : stack[i].called[k].l = stack[i].handlers[k]
    /\ Finished(stack[i]) => Len(stack[i].called) = Cardinality(stack[i].start)

\* A pass is over; its first listener removed the second one with off before the
\* second one's turn, and the second one was called all the same.
C18_Witness ==
  \E i \in 1..Len(stack) :
    /\ Finished(stack[i])
    /\ Len(stack[i].called) = 2
    /\ stack[i].called[1].l.kind = "fn" /\ stack[i].called[1].reg
    /\ stack[i].called[2].l.kind = "fn" /\ ~stack[i].called[2].reg

\* C19: a listener of the delivery set gets the event name as second argument exactly
\* when it was, at the time the call started, registered under the wildcard and not
\* under the event; one registered under both gets no event name, whatever is done
\* to the registry during the call.
C19_EventNameArgument ==
  \A i \in 1..Len(stack) :
    \A k \in 1..Len(stack[i].called) :
      stack[i].called[k].name <=>
        /\ <<ANY, stack[i].called[k].l>> \in DOMAIN stack[i].regs
        /\ <<stack[i].eventName, stack[i].called[k].l>> \notin DOMAIN stack[i].regs

\* Whether listener a comes before listener b in the delivery order of frame f, by
\* the registrations at the start of the call: the listeners of the event in the order
\* they were registered, then those of the wildcard alone in the order they were.
Specific(f, l) == <<f.eventName, l>> \in DOMAIN f.regs
RegisteredBefore(f, a, b) ==
  IF Specific(f, a) /\ Specific(f, b)
  THEN f.regs[<<f.eventName, a>>] < f.regs[<<f.eventName, b>>]
  ELSE IF ~Specific(f, a) /\ ~Specific(f, b)
  THEN f.regs[<<ANY, a>>] < f.regs[<<ANY, b>>]
  ELSE Specific(f, a)

\* C20: within one emit / emitAsync call the listeners are invoked in this order:
\* the listeners registered for the event, in the order they were registered, then
\* the listeners registered under the wildcard only, in the order they were
\* registered there.
C20_DeliveryOrder ==
  \A i \in 1..Len(stack) :
    /\ \A j, k \in 1..Len(stack[i].called) :
         j < k => RegisteredBefore(stack[i], stack[i].called[j].l, stack[i].called[k].l)
    /\ Finished(stack[i]) => CalledListeners(stack[i]) = stack[i].start

\* A call for "x" is over: a listener of "x" was called before a listener of the
\* wildcard alone that had been registered earlier than it.
C20_Witness ==
  \E i \in 1..Len(stack) :
    /\ Finished(stack[i])
    /\ Len(stack[i].called) = 2
    /\ Specific(stack[i], stack[i].called[1].l)
    /\ ~Specific(stack[i], stack[i].called[2].l)
    /\ stack[i].regs[<<ANY, stack[i].called[2].l>>]
         < stack[i].regs[<<stack[i].eventName, stack[i].called[1].l>>]

\* C21: the registry holds no empty listener set: eventNames() lists exactly the
\* events that have a registered listener, each with exactly its registered listeners
\* (so off(event) removes the listeners of that event only), and after off() /
\* off(null) / clearListeners() it is empty.
C21_NoEmptySets ==
  /\ \A e \in DOMAIN listenersMap : listenersMap[e] # <<>>
  /\ eventNames = {p[1] : p \in DOMAIN registered}
  /\ \A e \in eventNames : Range(listenersMap[e]) = RegisteredFor(registered, e)

\* The only listener of an event, a once() wrapper, has run and removed itself: the
\* event is gone from eventNames() while another event keeps its listener.
C21_Witness ==
  /\ Len(wrappers) = 1
  /\ wrappers[1].calls = 1 /\ ~HandlerRunning(1)
  /\ wrappers[1].eventName \notin eventNames
  /\ eventNames # {}

\* C22: the unsubscribe capability of on(e, L), which is off(e, L), removes the pair
\* (e, L) only: every event keeps its other listeners and L stays registered under
\* the other events; for a pair that is not registered (a second invocation) nothing
\* changes; and no error is raised.
C22_UnsubscribeFrame ==
  [][\A e \in BusEvents, h \in Handlers \cup {Wr(w) : w \in 1..MaxOnce} :
       Off(e, h) =>
         /\ lastError' = "none"
         /\ \A e2 \in BusEvents :
              Range(SetOrEmpty(listenersMap', e2))
                = Range(SetOrEmpty(listenersMap, e2)) \ (IF e2 = e THEN {h} ELSE {})
         /\ ~Contains(SetOrEmpty(listenersMap, e), h) => listenersMap' = listenersMap]_vars

\* Four calls were made and two registrations are left, under different events, made
\* first and third: the second registration was removed on its own, after the third.
C22_Witness ==
  /\ calls = 4
  /\ \E h \in Handlers, e1, e2 \in BusEvents :
       /\ e1 # e2
       /\ DOMAIN registered = {<<e1, h>>, <<e2, h>>}
       /\ registered[<<e1, h>>].at = 1
       /\ registered[<<e2, h>>].at = 3
       /\ listenersMap = [e \in {e1, e2} |-> <<h>>]

\* C25: the delivery set of an emit / emitAsync call is fixed when the call starts: a
\* listener registered (on, once) from inside a listener during the pass is not part
\* of the pass and is not invoked in it; a pass for the same event that starts later
\* has it in its delivery set and invokes it.
C25_DeliverySetFixed ==
  \A i \in 1..Len(stack) :
    /\ \A l \in (RegisteredFor(registered, stack[i].eventName)
                   \cup RegisteredFor(registered, ANY)) \ stack[i].start :
         l \notin CalledListeners(stack[i]) /\ ~Contains(stack[i].handlers, l)
    /\ \A j \in (i + 1)..Len(stack) :
         stack[j].eventName = stack[i].eventName =>
           /\ (stack[j].start \ stack[i].start) \subseteq Range(stack[j].handlers)
           /\ Finished(stack[j]) => (stack[j].start \ stack[i].start)
                                       \subseteq CalledListeners(stack[j])

\* A listener running in a pass for an event registered a new listener and emitted
\* the event again: the new listener was not called in the first pass, which is still
\* in progress, and has been called in the second.
C25_Witness ==
  /\ Len(stack) = 2
  /\ stack[1].eventName = stack[2].eventName
  /\ stack[1].running
  /\ Finished(stack[2])
  /\ \E l \in CalledListeners(stack[2]) :
       l \notin stack[1].start /\ l \notin CalledListeners(stack[1])

\* What a call that raises leaves behind: the error at the call site and nothing else.
RaisesAndChangesNothing ==
  /\ lastError' \in {"TypeError", "Error"}
  /\ UNCHANGED <<listenersMap, wrappers, stack, jobs, asyncCalls, registered,
                 initialized, worldReady, bootstrapCompleted, runtimeCompleted,
                 moduleQueue, importedModules, entries, loads, batches, host, hostQueue,
                 hist>>

\* C23: caller errors fail fast and change nothing: on / once / emit with an event
\* name that is not a string, on / once with a listener that is not callable, and
\* registerModule with an empty (or blank, or non-string) specifier or with a relative
\* specifier and no anchor raise an error at the call site and leave the registry, the
\* load queue, importedModules and the gates as they were, with no listener invoked
\* and no load started.
C23_CallerErrorsFailFast ==
  [][/\ \A c \in BadListenerCalls :
          (On(c[1], c[2]) \/ Once(c[1], c[2])) => RaisesAndChangesNothing
     /\ \A p \in Payloads : Emit(NonString, p) => RaisesAndChangesNothing
     /\ \A in \in BadSpecifierInputs, ph \in {BOOTSTRAP, RUNTIME} :
          RegisterModule(in[1], ph, FALSE, in[2]) => RaisesAndChangesNothing]_vars

\* A call made from inside a running listener, with a listener registered and an entry
\* queued, has raised the error of a relative specifier without anchor.
C23_Witness ==
  /\ lastError = "Error"
  /\ stack # <<>> /\ Top.running
  /\ listenersMap # EmptyMap
  /\ moduleQueue # <<>>

\* C24: every delivery of the host's watchdog signal results in exactly one emit of
\* the shutdown event, carrying the signal and the watchdog flag, also when cancelling
\* the termination or logging the warning fails; and no failure of a shutdown listener
\* leaves the emit.
C24_WatchdogShutdown ==
  /\ hist.shutdownEmits
       + Len(SelectSeq(hostQueue, LAMBDA c : c.type = "watchdog")) = hist.signals
  /\ host.watchdogSubs <= 1
  /\ \A i \in 1..Len(stack) :
       stack[i].cont = "watchdog" =>
         /\ stack[i].eventName = SHUTDOWN
         /\ stack[i].payload = [data |-> "signal", isWatchdog |-> TRUE]
         /\ ~stack[i].threw
         /\ Finished(stack[i]) => CalledListeners(stack[i]) = stack[i].start

\* The signal was delivered twice and the shutdown event emitted twice, a step before
\* the emit failed at least once, and the shutdown listener of the second emit threw.
C24_Witness ==
  /\ hist.signals = 2 /\ hist.shutdownEmits = 2
  /\ hist.guardFaults >= 1
  /\ \E i \in 1..Len(stack) :
       /\ stack[i].cont = "watchdog"
       /\ Finished(stack[i])
       /\ stack[i].results # <<>> /\ stack[i].results[1] = "throw"


\* A cached id the store lacks holds undefined: the entry set(key, undefined) leaves.
CacheStaleOnlyUndefined ==
  \A id \in DOMAIN db.cache :
    IF id \in DOMAIN properties THEN db.cache[id] = properties[id]
    ELSE db.cache[id] = Undefined

\* C26: for a Database with caching and no other writer, after any sequence of set /
\* delete / update / clear / get / has / entries / refreshCache calls (set with the
\* value undefined included) every id the cache holds is a property of the store with
\* the same value, has returns true exactly when the store holds a value for the id,
\* and get returns the store's value.
C26_CacheCoherent ==
  (db.open /\ db.useCache) =>
    /\ \A id \in DOMAIN db.cache :
         id \in DOMAIN properties /\ db.cache[id] = properties[id]
    /\ (returned.op = "has" /\ ~returned.threw) =>
         returned.value = (returned.id \in DOMAIN properties)
    /\ (returned.op = "get" /\ ~returned.threw) =>
         returned.value = getDynamicProperty(properties, returned.id)

====
